---- MODULE Spec2Model ----
(***************************************************************************)
(* whisper-stream-web: live microphone capture, silence-driven            *)
(* segmentation and dispatch to a speech-to-text service.                 *)
(*                                                                         *)
(* The repository holds three React components, modelled side by side:    *)
(*   RealTimeTranscriptionVAD  src/src/RealTimeTranscriptionVAD.tsx:5-109 *)
(*       (variables v..., specification SpecVAD)                          *)
(*   AudioTranscription        src/src/RealTimeTranscriptionVAD.tsx:122-418*)
(*       (variables a..., specification SpecAT)                           *)
(*   TranscriptionApp          src/temp/live-whisper/src/TranscriptionApp.tsx*)
(*       (variables t..., specification SpecApp)                          *)
(*                                                                         *)
(* The two recorder components poll the loudness of the microphone on     *)
(* every animation frame (checkSilence, checkAudioLevel), behind a test   *)
(* of isRecording.  TStartResolved and AStartResolved take as a parameter *)
(* the value of isRecording that the first call of the loop reads.        *)
(* SpecApp and SpecAT pass TRUE: the loop runs for as long as the session *)
(* records, which is what the silence policy needs in order to act at     *)
(* all, and what is said here about that policy is said on that footing.  *)
(* As written the first call reads the isRecording of the render in which *)
(* startRecording was created, which is false (in AudioTranscription it   *)
(* is also made before setIsRecording(true)): FALSE for the parameter     *)
(* gives that reading, under which no frame is ever polled.               *)
(* SpecAppWritten and SpecATWritten are the two components on that        *)
(* reading; what does not depend on the silence policy is stated there.   *)
(* SpecATUpload is SpecAT with the upload input of AudioTranscription.    *)
(*                                                                         *)
(* Audio is abstracted to identities: segment k of a session of the VAD   *)
(* component is the number k, a recorder fragment is its delivery number, *)
(* and the text the service returns for a request is the number of that   *)
(* request (NoText stands for a body without a text field).               *)
(***************************************************************************)
EXTENDS Integers, Sequences, FiniteSets, TLC

\* ---------------------------------------------------------------- bounds
\* onSpeechEnd callbacks per behaviour
MaxSegs == 3
\* startRecording calls per behaviour
MaxStarts == 2
\* recorder stops delivered (a dataavailable and a stop event each) per behaviour
MaxFrags == 2
\* the clock stops here
MaxNow == 2000
\* setTimeout calls per behaviour
MaxTimers == 2
\* files chosen in the upload input per behaviour
MaxUploads == 1
\* the clock advances in these steps (milliseconds between event-loop turns)
Gaps == {500}

\* ------------------------------------------------------ program constants
VAD_THRESHOLD == -45
SILENCE_DURATION == 1000

SILENCE_THRESHOLD == -50
SILENCE_DURATION_AT == 1000

\* a ref or state holding null
Null == 0
\* loudness levels (dB) a frame can have: silence, the threshold itself, speech
Levels == {VAD_THRESHOLD - 15, VAD_THRESHOLD, VAD_THRESHOLD + 15}
LevelsAT == {SILENCE_THRESHOLD - 10, SILENCE_THRESHOLD, SILENCE_THRESHOLD + 20}

\* a response body that carries no text field (data.text is undefined)
NoText == 0

Outcomes == {"text", "notext", "fail"}

VARIABLES
    \* RealTimeTranscriptionVAD
    vListening,      \* vad.listening
    vSegs,           \* number of onSpeechEnd callbacks so far
    vInflight,       \* segments whose axios.post has not settled
    vFailed,         \* segments whose axios.post rejected (console.error only)
    vTranscription,  \* useState<string[]> transcription
    vAudioList       \* useState<string[]> audioList (newest first)

VARIABLES
    \* the clock read by Date.now(), in milliseconds
    now

VARIABLES
    \* TranscriptionApp
    tIsRecording,    \* useState isRecording
    tStatus,         \* useState status
    tTranscriptions, \* useState<string[]> transcriptions
    tAudioChunks,    \* useState<Blob[]> audioChunks: one blob per onstop
    tStarting,       \* startRecording calls awaiting getUserMedia
    tRecorder,       \* mediaRecorder.current (Null before the first start)
    tRecState,       \* MediaRecorder.state of every recorder created
    tTracksLive,     \* whether the tracks of a recorder's stream are live
    tEvents,         \* whether the task queued by MediaRecorder.stop() is pending, per recorder
    tFrags,          \* number of dataavailable events delivered
    tLoop,           \* whether checkSilence is scheduled for the next frame
    silenceStart,    \* silenceStart.current (Null or a Date.now() value)
    currentChunks,   \* currentChunks.current
    tInflight,       \* fetches not settled: [id, blob]
    tReqs,           \* number of fetches issued
    tStopped,        \* history: stopRecording has run since the last start
    tCause,          \* history: what stopped each recorder last ("silence": detectSilence, "button": stopRecording, "error": a recorder error)
    tSnap,           \* history: currentChunks as detectSilence or stopRecording found them when stopping each recorder
    tSubmitted,      \* history: per onstop, its cause, that snapshot, the blob posted and the chunks left
    tEpisodeEmits    \* history: recorder stops made by detectSilence in this session since the last speech frame

VARIABLES
    \* AudioTranscription
    aIsRecording,    \* useState isRecording
    aError,          \* useState error ("none" for null)
    aTranscription,  \* useState transcription: the texts concatenated so far
    aStarting,       \* startRecording calls awaiting getUserMedia
    aRecorder,       \* mediaRecorder.current (Null before the first start)
    aRecState,       \* MediaRecorder.state of every recorder created
    aTracksLive,     \* whether the tracks of a recorder's stream are live
    aEvents,         \* whether the task queued by MediaRecorder.stop() is pending, per recorder
    aFrags,          \* number of dataavailable events delivered
    audioQueue,      \* audioQueue.current
    silenceTimeout,  \* silenceTimeout.current (Null or a timer handle)
    aTimers,         \* setTimeout timers not yet run or cleared: [id, due]
    aTimerNo,        \* number of setTimeout calls
    aLoop,           \* whether checkAudioLevel is scheduled for the next frame
    aInflight,       \* fetches of processAudioChunk not settled: [id, blob], with the history
                     \* field idle: the session was not recording when the fetch was issued
    aReqs,           \* number of fetches issued by processAudioChunk
    aStopped,        \* history: stopRecording has run and startRecording has not been called since
    aSilentSince,    \* history: time of the first silent frame after the last speech frame
    aSubmitted,      \* history: the last processAudioChunk call: its number, the time and aSilentSince
    aReplied,        \* history: the last fetch settled: its id and outcome, idle: the session was not
                     \* recording then, late: and the fetch had been issued while it was recording
    aCancelAt,       \* history: time of the last speech frame that cleared a pending timer
    aUploads,        \* number of handleFileUpload calls
    aUpPending       \* handleFileUpload calls whose fetch has not settled

atVars == <<aIsRecording, aError, aTranscription, aStarting, aRecorder, aRecState,
            aTracksLive, aEvents, aFrags, audioQueue, silenceTimeout, aTimers,
            aTimerNo, aLoop, aInflight, aReqs, aStopped, aSilentSince, aSubmitted,
            aReplied, aCancelAt, aUploads, aUpPending>>
upVars == <<aUploads, aUpPending>>
vadVars == <<vListening, vSegs, vInflight, vFailed, vTranscription, vAudioList>>
appVars == <<tIsRecording, tStatus, tTranscriptions, tAudioChunks, tStarting,
             tRecorder, tRecState, tTracksLive, tEvents, tFrags, tLoop,
             silenceStart, currentChunks, tInflight, tReqs, tStopped,
             tCause, tSnap, tSubmitted, tEpisodeEmits>>
vars == <<now, vadVars, appVars, atVars>>

\* ------------------------------------------- RealTimeTranscriptionVAD

VadInit ==
    /\ vListening = FALSE
    /\ vSegs = 0
    /\ vInflight = {}
    /\ vFailed = {}
    /\ vTranscription = <<>>
    /\ vAudioList = <<>>

\* onClick={vad.start}
VadStart ==
    /\ ~vListening
    /\ vListening' = TRUE
    /\ UNCHANGED <<vSegs, vInflight, vFailed, vTranscription, vAudioList>>
    /\ UNCHANGED <<now, appVars, atVars>>

\* onClick={vad.pause}
VadPause ==
    /\ vListening
    /\ vListening' = FALSE
    /\ UNCHANGED <<vSegs, vInflight, vFailed, vTranscription, vAudioList>>
    /\ UNCHANGED <<now, appVars, atVars>>

\* the try block of sendAudioForTranscription after the await: the text of
\* the response is appended to the list as it is
SendResolved(list, text) == Append(list, text)

\* onSpeechEnd: the clip is stored first in audioList and
\* sendAudioForTranscription is called without being awaited
OnSpeechEnd ==
    /\ vListening
    /\ vSegs < MaxSegs
    /\ vSegs' = vSegs + 1
    /\ vAudioList' = <<vSegs + 1>> \o vAudioList
    /\ vInflight' = vInflight \cup {vSegs + 1}
    /\ UNCHANGED <<vListening, vFailed, vTranscription>>
    /\ UNCHANGED <<now, appVars, atVars>>

\* axios.post settles for segment k: a 2xx response (with or without a text
\* field) appends response.data.text; a rejection is logged
SendSettles(k, outcome) ==
    /\ k \in vInflight
    /\ vInflight' = vInflight \ {k}
    /\ IF outcome = "fail"
         THEN /\ vFailed' = vFailed \cup {k}
              /\ UNCHANGED vTranscription
         ELSE /\ vTranscription' =
                    SendResolved(vTranscription, IF outcome = "text" THEN k ELSE NoText)
              /\ UNCHANGED vFailed
    /\ UNCHANGED <<vListening, vSegs, vAudioList>>
    /\ UNCHANGED <<now, appVars, atVars>>

VadNext ==
    \/ VadStart
    \/ VadPause
    \/ OnSpeechEnd
    \/ \E k \in 1..MaxSegs, o \in Outcomes : SendSettles(k, o)

\* ---------------------------------------------------- TranscriptionApp

Recorders == 1..MaxStarts

AppInit ==
    /\ tIsRecording = FALSE
    /\ tStatus = "idle"
    /\ tTranscriptions = <<>>
    /\ tAudioChunks = <<>>
    /\ tStarting = 0
    /\ tRecorder = Null
    /\ tRecState = [r \in Recorders |-> "none"]
    /\ tTracksLive = [r \in Recorders |-> FALSE]
    /\ tEvents = [r \in Recorders |-> FALSE]
    /\ tFrags = 0
    /\ tLoop = FALSE
    /\ silenceStart = Null
    /\ currentChunks = <<>>
    /\ tInflight = {}
    /\ tReqs = 0
    /\ tStopped = FALSE
    /\ tCause = [r \in Recorders |-> "none"]
    /\ tSnap = [r \in Recorders |-> <<>>]
    /\ tSubmitted = <<>>
    /\ tEpisodeEmits = 0

\* detectSilence, lines 39-51, on a frame of loudness db read at time t:
\* the new silenceStart and currentChunks, and whether mediaRecorder.stop()
\* was called
DetectSilence(db, t, ss, chunks) ==
    IF db < VAD_THRESHOLD
      THEN IF ss = Null
             THEN [silenceStart |-> t, chunks |-> chunks, stop |-> FALSE]
             ELSE IF t - ss > SILENCE_DURATION /\ Len(chunks) > 0
                    THEN [silenceStart |-> ss, chunks |-> <<>>, stop |-> TRUE]
                    ELSE [silenceStart |-> ss, chunks |-> chunks, stop |-> FALSE]
      ELSE [silenceStart |-> Null, chunks |-> chunks, stop |-> FALSE]

\* MediaRecorder.stop() on recorder r: nothing when r is inactive; otherwise r
\* becomes inactive and one task is queued that fires dataavailable, then stop
RecorderStop(r, states) ==
    IF r # Null /\ states[r] = "recording"
      THEN [states EXCEPT ![r] = "inactive"]
      ELSE states

RecorderStopEvents(r, states, events) ==
    IF r # Null /\ states[r] = "recording"
      THEN [events EXCEPT ![r] = TRUE]
      ELSE events

\* MediaRecorder.start() on recorder r: throws unless r is inactive and its
\* stream still has live tracks
RecorderStart(r, states, live) ==
    IF r # Null /\ states[r] = "inactive" /\ live[r]
      THEN [states EXCEPT ![r] = "recording"]
      ELSE states

\* history of one run of detectSilence on recorder r in states `states`,
\* emits being the stops counted so far in this silence episode
DetectHistory(db, d, r, states, emits) ==
    LET stops == d.stop /\ r # Null /\ states[r] = "recording" IN
    /\ tCause' = IF stops THEN [tCause EXCEPT ![r] = "silence"] ELSE tCause
    /\ tSnap' = IF stops THEN [tSnap EXCEPT ![r] = currentChunks] ELSE tSnap
    /\ tEpisodeEmits' = IF db >= VAD_THRESHOLD THEN 0
                        ELSE IF stops THEN emits + 1 ELSE emits

\* one run of detectSilence applied to the refs and the current recorder
ApplyDetect(db) ==
    LET d == DetectSilence(db, now, silenceStart, currentChunks) IN
    /\ silenceStart' = d.silenceStart
    /\ currentChunks' = d.chunks
    /\ tRecState' = IF d.stop THEN RecorderStop(tRecorder, tRecState) ELSE tRecState
    /\ tEvents' = IF d.stop THEN RecorderStopEvents(tRecorder, tRecState, tEvents)
                            ELSE tEvents
    /\ DetectHistory(db, d, tRecorder, tRecState, tEpisodeEmits)

\* the button calls startRecording while it shows "Start Recording"
\* (onClick={isRecording ? stopRecording : startRecording}); getUserMedia
\* is awaited
TStartClick ==
    /\ ~tIsRecording
    /\ tStarting + Cardinality({r \in Recorders : tRecState[r] # "none"}) < MaxStarts
    /\ tStarting' = tStarting + 1
    /\ UNCHANGED <<tIsRecording, tStatus, tTranscriptions, tAudioChunks, tRecorder,
                   tRecState, tTracksLive, tEvents, tFrags, tLoop, silenceStart,
                   currentChunks, tInflight, tReqs, tStopped, tCause, tSnap,
                   tSubmitted, tEpisodeEmits>>
    /\ UNCHANGED <<now, vadVars, atVars>>

\* getUserMedia rejects: the catch block of startRecording
TStartRejected ==
    /\ tStarting > 0
    /\ tStarting' = tStarting - 1
    /\ tStatus' = "error"
    /\ UNCHANGED <<tIsRecording, tTranscriptions, tAudioChunks, tRecorder,
                   tRecState, tTracksLive, tEvents, tFrags, tLoop, silenceStart,
                   currentChunks, tInflight, tReqs, tStopped, tCause, tSnap,
                   tSubmitted, tEpisodeEmits>>
    /\ UNCHANGED <<now, vadVars, atVars>>

\* getUserMedia resolves: lines 57-112. A new recorder is created and
\* started, and checkSilence is called once; sees is the value of isRecording
\* that checkSilence reads, db the loudness of the frame it reads
TStartResolved(sees, db) ==
    /\ tStarting > 0
    /\ tStarting' = tStarting - 1
    /\ LET r == 1 + Cardinality({x \in Recorders : tRecState[x] # "none"}) IN
       /\ tRecorder' = r
       /\ tTracksLive' = [tTracksLive EXCEPT ![r] = TRUE]
       /\ tIsRecording' = TRUE
       /\ tStatus' = "recording"
       /\ tStopped' = FALSE
       /\ IF sees
            THEN LET d == DetectSilence(db, now, silenceStart, currentChunks)
                     started == [tRecState EXCEPT ![r] = "recording"] IN
                 /\ silenceStart' = d.silenceStart
                 /\ currentChunks' = d.chunks
                 /\ tRecState' = IF d.stop THEN RecorderStop(r, started) ELSE started
                 /\ tEvents' = IF d.stop THEN RecorderStopEvents(r, started, tEvents)
                                         ELSE tEvents
                 /\ tLoop' = TRUE
                 /\ DetectHistory(db, d, r, started, 0)
            ELSE /\ tRecState' = [tRecState EXCEPT ![r] = "recording"]
                 /\ UNCHANGED <<silenceStart, currentChunks, tEvents, tLoop,
                                tCause, tSnap, tEpisodeEmits>>
    /\ UNCHANGED <<tTranscriptions, tAudioChunks, tFrags, tInflight, tReqs,
                   tSubmitted>>
    /\ UNCHANGED <<now, vadVars, atVars>>

\* an animation frame runs checkSilence, lines 106-111, reading isRecording
\* as the current state
CheckSilence(db) ==
    /\ tLoop
    /\ IF tIsRecording
         THEN /\ ApplyDetect(db)
              /\ UNCHANGED tLoop
         ELSE /\ tLoop' = FALSE
              /\ UNCHANGED <<silenceStart, currentChunks, tRecState, tEvents,
                             tCause, tSnap, tEpisodeEmits>>
    /\ UNCHANGED <<tIsRecording, tStatus, tTranscriptions, tAudioChunks, tStarting,
                   tRecorder, tTracksLive, tFrags, tInflight, tReqs, tStopped,
                   tSubmitted>>
    /\ UNCHANGED <<now, vadVars, atVars>>

\* stopRecording, lines 119-127 (the button shows "Stop Recording")
TStopRecording ==
    /\ tIsRecording
    /\ IF tRecorder # Null /\ tRecState[tRecorder] # "inactive"
         THEN /\ tRecState' = RecorderStop(tRecorder, tRecState)
              /\ tEvents' = RecorderStopEvents(tRecorder, tRecState, tEvents)
              /\ tTracksLive' = [tTracksLive EXCEPT ![tRecorder] = FALSE]
              /\ tIsRecording' = FALSE
              /\ tStatus' = "idle"
              /\ tStopped' = TRUE
              /\ tCause' = [tCause EXCEPT ![tRecorder] = "button"]
              /\ tSnap' = [tSnap EXCEPT ![tRecorder] = currentChunks]
         ELSE UNCHANGED <<tRecState, tEvents, tTracksLive, tIsRecording, tStatus,
                          tStopped, tCause, tSnap>>
    /\ UNCHANGED <<tTranscriptions, tAudioChunks, tStarting, tRecorder, tFrags,
                   tLoop, silenceStart, currentChunks, tInflight, tReqs,
                   tSubmitted, tEpisodeEmits>>
    /\ UNCHANGED <<now, vadVars, atVars>>

\* the recorder r meets a fatal error while recording (the device is lost,
\* the encoder fails): the platform makes it inactive, fires error, then
\* dataavailable and stop. startRecording, lines 65-100, sets ondataavailable
\* and onstop on the recorder and no onerror, so nothing of the component
\* runs until the stop task does
TRecorderError(r) ==
    /\ tRecState[r] = "recording"
    /\ tRecState' = [tRecState EXCEPT ![r] = "inactive"]
    /\ tEvents' = [tEvents EXCEPT ![r] = TRUE]
    /\ tCause' = [tCause EXCEPT ![r] = "error"]
    /\ tSnap' = [tSnap EXCEPT ![r] = currentChunks]
    /\ UNCHANGED <<tIsRecording, tStatus, tTranscriptions, tAudioChunks, tStarting,
                   tRecorder, tTracksLive, tFrags, tLoop, silenceStart,
                   currentChunks, tInflight, tReqs, tStopped, tSubmitted,
                   tEpisodeEmits>>
    /\ UNCHANGED <<now, vadVars, atVars>>

\* the n-th fragment a recorder delivers: n when the Blob holds audio, -n when
\* its size is 0 (nothing was captured since the recorder was started)
Fragment(n, hasData) == IF hasData THEN n ELSE 0 - n

\* whether a blob built from these chunks holds any audio
HasAudio(chunks) == \E i \in DOMAIN chunks : chunks[i] > 0

\* the task queued by MediaRecorder.stop() on recorder r fires dataavailable
\* and then stop. ondataavailable, lines 67-69 (the recorder was started
\* without a timeslice, so this is the only delivery of its data; it is
\* pushed whatever its size), then onstop up to its await, lines 71-91: the
\* blob is built from currentChunks as they are now and posted
TStopTask(r, hasData) ==
    /\ tEvents[r]
    /\ tFrags < MaxFrags
    /\ tEvents' = [tEvents EXCEPT ![r] = FALSE]
    /\ tFrags' = tFrags + 1
    /\ LET chunks == Append(currentChunks, Fragment(tFrags + 1, hasData)) IN
       /\ currentChunks' = chunks
       /\ tAudioChunks' = Append(tAudioChunks, chunks)
       /\ tInflight' = tInflight \cup {[id |-> tReqs + 1, blob |-> chunks]}
       /\ tSubmitted' = Append(tSubmitted,
                               [cause |-> tCause[r], accumulated |-> tSnap[r],
                                blob |-> chunks, left |-> chunks])
    /\ tStatus' = "transcribing"
    /\ tReqs' = tReqs + 1
    /\ UNCHANGED <<tIsRecording, tTranscriptions, tStarting, tRecorder, tRecState,
                   tTracksLive, tLoop, silenceStart, tStopped, tCause, tSnap,
                   tEpisodeEmits>>
    /\ UNCHANGED <<now, vadVars, atVars>>

\* the text onstop appends once response.json() has resolved (line 93)
OnStopResolved(list, text) == Append(list, text)

\* onstop after its await, lines 92-99: any response with a JSON body has its
\* text field appended (fetch does not reject on a non-2xx status); a network
\* error or an unparseable body is logged. Then the status is set to
\* "recording" and the current recorder is started again
TFetchSettles(q, outcome) ==
    /\ q \in tInflight
    /\ tInflight' = tInflight \ {q}
    /\ tTranscriptions' =
         IF outcome = "fail" THEN tTranscriptions
         ELSE OnStopResolved(tTranscriptions, IF outcome = "text" THEN q.id ELSE NoText)
    /\ tStatus' = "recording"
    /\ tRecState' = RecorderStart(tRecorder, tRecState, tTracksLive)
    /\ UNCHANGED <<tIsRecording, tAudioChunks, tStarting, tRecorder, tTracksLive,
                   tEvents, tFrags, tLoop, silenceStart, currentChunks, tReqs,
                   tStopped, tCause, tSnap, tSubmitted, tEpisodeEmits>>
    /\ UNCHANGED <<now, vadVars, atVars>>

AppNext ==
    \/ TStartClick
    \/ TStartRejected
    \/ \E db \in Levels : TStartResolved(TRUE, db)
    \/ \E db \in Levels : CheckSilence(db)
    \/ TStopRecording
    \/ \E r \in Recorders : TRecorderError(r)
    \/ \E r \in Recorders, d \in BOOLEAN : TStopTask(r, d)
    \/ \E q \in tInflight, o \in Outcomes : TFetchSettles(q, o)


\* -------------------------------------------------- AudioTranscription

AtInit ==
    /\ aIsRecording = FALSE
    /\ aError = "none"
    /\ aTranscription = <<>>
    /\ aStarting = 0
    /\ aRecorder = Null
    /\ aRecState = [r \in Recorders |-> "none"]
    /\ aTracksLive = [r \in Recorders |-> FALSE]
    /\ aEvents = [r \in Recorders |-> FALSE]
    /\ aFrags = 0
    /\ audioQueue = <<>>
    /\ silenceTimeout = Null
    /\ aTimers = {}
    /\ aTimerNo = 0
    /\ aLoop = FALSE
    /\ aInflight = {}
    /\ aReqs = 0
    /\ aStopped = FALSE
    /\ aSilentSince = Null
    /\ aSubmitted = [id |-> 0, at |-> 0, silentSince |-> Null]
    /\ aReplied = [id |-> 0, outcome |-> "none", idle |-> FALSE, late |-> FALSE]
    /\ aCancelAt = Null
    /\ aUploads = 0
    /\ aUpPending = {}

\* LevelStep with the speech branch leaving the pending timer alone
LevelStepNoCancel(db, t, handle, timers, n) ==
    IF db < SILENCE_THRESHOLD /\ handle = Null
      THEN [handle |-> n + 1,
            timers |-> timers \cup {[id |-> n + 1, due |-> t + SILENCE_DURATION_AT]},
            n |-> n + 1]
      ELSE [handle |-> handle, timers |-> timers, n |-> n]

\* checkAudioLevel, lines 232-249, on a frame of loudness db read at time t:
\* the new silenceTimeout.current, the pending timers and the number of
\* setTimeout calls
LevelStep(db, t, handle, timers, n) ==
    IF db < SILENCE_THRESHOLD
      THEN IF handle = Null
             THEN [handle |-> n + 1,
                   timers |-> timers \cup {[id |-> n + 1, due |-> t + SILENCE_DURATION_AT]},
                   n |-> n + 1]
             ELSE [handle |-> handle, timers |-> timers, n |-> n]
      ELSE IF handle # Null
             THEN [handle |-> Null,
                   timers |-> {x \in timers : x.id # handle},
                   n |-> n]
             ELSE [handle |-> handle, timers |-> timers, n |-> n]

\* whether checkAudioLevel can still call setTimeout on a frame of loudness db
TimerBudget(db) ==
    (db < SILENCE_THRESHOLD /\ silenceTimeout = Null) => aTimerNo < MaxTimers

\* one run of lines 222-249 applied to the refs, with its history
ApplyLevel(db) ==
    LET l == LevelStep(db, now, silenceTimeout, aTimers, aTimerNo) IN
    /\ silenceTimeout' = l.handle
    /\ aTimers' = l.timers
    /\ aTimerNo' = l.n
    /\ aSilentSince' = IF db < SILENCE_THRESHOLD
                         THEN (IF aSilentSince = Null THEN now ELSE aSilentSince)
                         ELSE Null
    /\ aCancelAt' = IF l.timers # aTimers /\ l.n = aTimerNo THEN now ELSE aCancelAt

\* stopRecording, lines 296-305, on the refs: the current recorder is stopped
\* and its tracks released when it is not inactive; the timer and the queue
\* are left as they are
StopRecorderState == RecorderStop(aRecorder, aRecState)
StopRecorderEvents == RecorderStopEvents(aRecorder, aRecState, aEvents)
StopTracks ==
    IF aRecorder # Null /\ aRecState[aRecorder] # "inactive"
      THEN [aTracksLive EXCEPT ![aRecorder] = FALSE]
      ELSE aTracksLive

\* the button calls startRecording while it shows "Start Recording"
\* (line 374); setError(null), then getUserMedia is awaited
AStartClick ==
    /\ ~aIsRecording
    /\ aStarting + Cardinality({r \in Recorders : aRecState[r] # "none"}) < MaxStarts
    /\ aStarting' = aStarting + 1
    /\ aError' = "none"
    /\ aStopped' = FALSE
    /\ UNCHANGED <<aIsRecording, aTranscription, aRecorder, aRecState, aTracksLive,
                   aEvents, aFrags, audioQueue, silenceTimeout, aTimers, aTimerNo,
                   aLoop, aInflight, aReqs, aSilentSince, aSubmitted, aReplied, aCancelAt>>
    /\ UNCHANGED <<now, vadVars, appVars, upVars>>

\* getUserMedia rejects: the catch block of startRecording, lines 286-293
AStartRejected ==
    /\ aStarting > 0
    /\ aStarting' = aStarting - 1
    /\ aError' = "microphone"
    /\ UNCHANGED <<aIsRecording, aTranscription, aRecorder, aRecState, aTracksLive,
                   aEvents, aFrags, audioQueue, silenceTimeout, aTimers, aTimerNo,
                   aLoop, aInflight, aReqs, aStopped, aSilentSince, aSubmitted,
                   aReplied, aCancelAt>>
    /\ UNCHANGED <<now, vadVars, appVars, upVars>>

\* getUserMedia resolves: lines 269-285. setupVAD calls checkAudioLevel once;
\* sees is the value of isRecording that checkAudioLevel reads, db the
\* loudness of the frame it reads. Then the recorder is started with a
\* timeslice of 1000 ms
AStartResolved(sees, db) ==
    /\ aStarting > 0
    /\ sees => TimerBudget(db)
    /\ aStarting' = aStarting - 1
    /\ LET r == 1 + Cardinality({x \in Recorders : aRecState[x] # "none"}) IN
       /\ aRecorder' = r
       /\ aRecState' = [aRecState EXCEPT ![r] = "recording"]
       /\ aTracksLive' = [aTracksLive EXCEPT ![r] = TRUE]
    /\ aIsRecording' = TRUE
    /\ IF sees
         THEN ApplyLevel(db) /\ aLoop' = TRUE
         ELSE UNCHANGED <<silenceTimeout, aTimers, aTimerNo, aSilentSince, aCancelAt,
                         aLoop>>
    /\ UNCHANGED <<aError, aTranscription, aEvents, aFrags, audioQueue, aInflight,
                   aReqs, aStopped, aSubmitted, aReplied>>
    /\ UNCHANGED <<now, vadVars, appVars, upVars>>

\* an animation frame runs checkAudioLevel, lines 219-252, reading
\* isRecording as the current state
CheckAudioLevel(db) ==
    /\ aLoop
    /\ aIsRecording => TimerBudget(db)
    /\ IF aIsRecording
         THEN ApplyLevel(db) /\ UNCHANGED aLoop
         ELSE /\ aLoop' = FALSE
              /\ UNCHANGED <<silenceTimeout, aTimers, aTimerNo, aSilentSince, aCancelAt>>
    /\ UNCHANGED <<aIsRecording, aError, aTranscription, aStarting, aRecorder,
                   aRecState, aTracksLive, aEvents, aFrags, audioQueue, aInflight,
                   aReqs, aStopped, aSubmitted, aReplied>>
    /\ UNCHANGED <<now, vadVars, appVars, upVars>>

\* the callback of the silence timer, lines 234-242: a non-empty queue is
\* handed to processAudioChunk, which posts it, and the queue is emptied;
\* silenceTimeout.current keeps the handle of the timer that has run
SilenceTimerFires(tm) ==
    /\ tm \in aTimers
    /\ now >= tm.due
    /\ aTimers' = aTimers \ {tm}
    /\ IF Len(audioQueue) > 0
         THEN /\ aReqs < MaxFrags
              /\ aReqs' = aReqs + 1
              /\ aInflight' = aInflight \cup {[id |-> aReqs + 1, blob |-> audioQueue,
                                                idle |-> ~aIsRecording]}
              /\ aSubmitted' = [id |-> aReqs + 1, at |-> now,
                                silentSince |-> aSilentSince]
              /\ audioQueue' = <<>>
         ELSE UNCHANGED <<aReqs, aInflight, aSubmitted, audioQueue>>
    /\ UNCHANGED <<aIsRecording, aError, aTranscription, aStarting, aRecorder,
                   aRecState, aTracksLive, aEvents, aFrags, silenceTimeout, aTimerNo,
                   aLoop, aStopped, aSilentSince, aReplied, aCancelAt>>
    /\ UNCHANGED <<now, vadVars, appVars, upVars>>

\* ondataavailable, lines 272-276: a recorder that is recording delivers a
\* fragment every timeslice; only a fragment with data is queued
ADataAvailable(r, hasData) ==
    /\ aRecState[r] = "recording"
    /\ aFrags < MaxFrags
    /\ aFrags' = aFrags + 1
    /\ audioQueue' = IF hasData THEN Append(audioQueue, aFrags + 1) ELSE audioQueue
    /\ UNCHANGED <<aIsRecording, aError, aTranscription, aStarting, aRecorder,
                   aRecState, aTracksLive, aEvents, silenceTimeout, aTimers, aTimerNo,
                   aLoop, aInflight, aReqs, aStopped, aSilentSince, aSubmitted,
                   aReplied, aCancelAt>>
    /\ UNCHANGED <<now, vadVars, appVars, upVars>>

\* the task queued by MediaRecorder.stop() on recorder r fires a last
\* dataavailable (no onstop handler is set)
AStopTask(r, hasData) ==
    /\ aEvents[r]
    /\ aFrags < MaxFrags
    /\ aEvents' = [aEvents EXCEPT ![r] = FALSE]
    /\ aFrags' = aFrags + 1
    /\ audioQueue' = IF hasData THEN Append(audioQueue, aFrags + 1) ELSE audioQueue
    /\ UNCHANGED <<aIsRecording, aError, aTranscription, aStarting, aRecorder,
                   aRecState, aTracksLive, silenceTimeout, aTimers, aTimerNo,
                   aLoop, aInflight, aReqs, aStopped, aSilentSince, aSubmitted,
                   aReplied, aCancelAt>>
    /\ UNCHANGED <<now, vadVars, appVars, upVars>>

\* the button calls stopRecording while it shows "Stop Recording"
AStopRecording ==
    /\ aIsRecording
    /\ aRecState' = StopRecorderState
    /\ aEvents' = StopRecorderEvents
    /\ aTracksLive' = StopTracks
    /\ aIsRecording' = FALSE
    /\ aStopped' = TRUE
    /\ UNCHANGED <<aError, aTranscription, aStarting, aRecorder, aFrags, audioQueue,
                   silenceTimeout, aTimers, aTimerNo, aLoop, aInflight, aReqs,
                   aSilentSince, aSubmitted, aReplied, aCancelAt>>
    /\ UNCHANGED <<now, vadVars, appVars, upVars>>

\* ChunkResolved with a response dropped once recording has stopped
ChunkResolvedWhileRecording(text, text0) ==
    IF text0 # NoText /\ aIsRecording THEN Append(text, text0) ELSE text

\* the text processAudioChunk adds once response.json() has resolved, lines
\* 195-198: only a truthy data.text is added
ChunkResolved(text, text0) == IF text0 # NoText THEN Append(text, text0) ELSE text

\* processAudioChunk after its await, lines 191-206. A network error, a
\* non-2xx status or an unparseable body reaches the catch block, which sets
\* the error and calls stopRecording
AFetchSettles(q, outcome) ==
    /\ q \in aInflight
    /\ aInflight' = aInflight \ {q}
    /\ aReplied' = [id |-> q.id, outcome |-> outcome, idle |-> ~aIsRecording,
                    late |-> ~aIsRecording /\ ~q.idle]
    /\ IF outcome = "fail"
         THEN /\ aError' = "processing"
              /\ aRecState' = StopRecorderState
              /\ aEvents' = StopRecorderEvents
              /\ aTracksLive' = StopTracks
              /\ aIsRecording' = FALSE
              /\ aStopped' = TRUE
              /\ UNCHANGED aTranscription
         ELSE /\ aTranscription' =
                    ChunkResolved(aTranscription, IF outcome = "text" THEN q.id ELSE NoText)
              /\ UNCHANGED <<aError, aRecState, aEvents, aTracksLive, aIsRecording,
                             aStopped>>
    /\ UNCHANGED <<aStarting, aRecorder, aFrags, audioQueue, silenceTimeout, aTimers,
                   aTimerNo, aLoop, aReqs, aSilentSince, aSubmitted, aCancelAt>>
    /\ UNCHANGED <<now, vadVars, appVars, upVars>>

\* the text the service returns for the n-th uploaded file
FileText(n) == 0 - n

\* handleFileUpload after its await, lines 333-336: a truthy data.text becomes
\* the transcription
FileResolved(text, text0) == IF text0 # NoText THEN <<text0>> ELSE text

\* a file is chosen in the upload input (offered whether or not the session
\* records): handleFileUpload up to its await, lines 310-327
AUploadFile ==
    /\ aUploads < MaxUploads
    /\ aUploads' = aUploads + 1
    /\ aUpPending' = aUpPending \cup {aUploads + 1}
    /\ aError' = "none"
    /\ UNCHANGED <<aIsRecording, aTranscription, aStarting, aRecorder, aRecState,
                   aTracksLive, aEvents, aFrags, audioQueue, silenceTimeout, aTimers,
                   aTimerNo, aLoop, aInflight, aReqs, aStopped, aSilentSince,
                   aSubmitted, aReplied, aCancelAt>>
    /\ UNCHANGED <<now, vadVars, appVars>>

\* handleFileUpload after its await, lines 329-343: a network error, a
\* non-2xx status or an unparseable body sets the error
AUploadSettles(u, outcome) ==
    /\ u \in aUpPending
    /\ aUpPending' = aUpPending \ {u}
    /\ IF outcome = "fail"
         THEN /\ aError' = "file"
              /\ UNCHANGED aTranscription
         ELSE /\ aTranscription' =
                    FileResolved(aTranscription,
                                 IF outcome = "text" THEN FileText(u) ELSE NoText)
              /\ UNCHANGED aError
    /\ UNCHANGED <<aIsRecording, aStarting, aRecorder, aRecState, aTracksLive,
                   aEvents, aFrags, audioQueue, silenceTimeout, aTimers, aTimerNo,
                   aLoop, aInflight, aReqs, aStopped, aSilentSince, aSubmitted,
                   aReplied, aCancelAt, aUploads>>
    /\ UNCHANGED <<now, vadVars, appVars>>

AtNext ==
    \/ AStartClick
    \/ AStartRejected
    \/ \E db \in LevelsAT : AStartResolved(TRUE, db)
    \/ \E db \in LevelsAT : CheckAudioLevel(db)
    \/ \E tm \in aTimers : SilenceTimerFires(tm)
    \/ \E r \in Recorders, d \in BOOLEAN : ADataAvailable(r, d)
    \/ \E r \in Recorders, d \in BOOLEAN : AStopTask(r, d)
    \/ AStopRecording
    \/ \E q \in aInflight, o \in Outcomes : AFetchSettles(q, o)

\* the upload input of AudioTranscription
UploadNext ==
    \/ AUploadFile
    \/ \E u \in 1..MaxUploads, o \in Outcomes : AUploadSettles(u, o)

\* ------------------------------------------------------- specifications

\* time passes between event-loop turns
Tick ==
    /\ \E g \in Gaps : now + g <= MaxNow /\ now' = now + g
    /\ UNCHANGED <<vadVars, appVars, atVars>>

Init ==
    /\ now = 500
    /\ VadInit
    /\ AppInit
    /\ AtInit

\* C1: the transcript lists the segments' texts in the order the segments
\* were submitted, whatever the order in which their responses arrive.
C1_TranscriptInSubmissionOrder ==
    \A i, j \in DOMAIN vTranscription :
        (i < j /\ vTranscription[i] # NoText /\ vTranscription[j] # NoText)
            => vTranscription[i] < vTranscription[j]

\* C4: every segment whose request has failed has an entry of its own in the
\* transcript (a failed marker): with the requests of segments 1..n settled,
\* failed ones included, the transcript holds n entries.
C4_FailedSegmentKeepsEntry ==
    Len(vTranscription) = Cardinality((1..vSegs) \ vInflight)

C5_StopFinalizesAccumulator ==
    [][(aIsRecording /\ ~aIsRecording' /\ aReplied' = aReplied
        /\ audioQueue # <<>> /\ silenceTimeout = Null)
          => \E q \in aInflight' \ aInflight : q.blob = audioQueue]_vars

C7_LateResponseStillAdded ==
    [][(aReplied' # aReplied /\ aReplied'.outcome = "text" /\ aReplied'.late)
          => aTranscription' = Append(aTranscription, aReplied'.id)]_vars

\* a text arrived after stopRecording for a segment submitted while
\* recording, and is in the transcript
C7_Witness ==
    /\ aReplied.outcome = "text" /\ aReplied.late
    /\ \E i \in DOMAIN aTranscription : aTranscription[i] = aReplied.id

\* C9: every segment the silence timer submits (the last one, in every
\* state) is submitted at least
\* SILENCE_DURATION after the first silent frame that followed the last
\* speech frame: a speech frame cancels the pending timer.
C9_EmissionNeedsUnbrokenSilence ==
    aSubmitted.id # 0
        => /\ aSubmitted.silentSince # Null
           /\ aSubmitted.at - aSubmitted.silentSince >= SILENCE_DURATION_AT

\* a speech frame has cleared a pending timer and a segment was submitted
\* for the silence that followed
C9_Witness ==
    /\ aCancelAt # Null
    /\ aSubmitted.id # 0
    /\ aSubmitted.silentSince >= aCancelAt

\* C11: no request is posted for a segment without audio: every blob that
\* onstop has posted holds at least one fragment in which something was
\* captured.
C11_NoEmptySegmentSubmitted ==
    \A i \in DOMAIN tSubmitted : HasAudio(tSubmitted[i].blob)

\* C12: every fragment the recorder has delivered is in exactly one of the
\* segments submitted: none is dropped and none is sent twice.
C12_FragmentInExactlyOneSegment ==
    \A k \in 1..tFrags :
        Cardinality({i \in DOMAIN tSubmitted :
                        \E j \in DOMAIN tSubmitted[i].blob :
                            tSubmitted[i].blob[j] \in {k, 0 - k}}) = 1

\* C13: when startRecording takes the session from idle to recording, the
\* accumulator is empty and no silence timer of an earlier session is pending.
C13_StartResetsSegmentState ==
    [][(~aIsRecording /\ aIsRecording')
          => (audioQueue' = <<>> /\ aTimers' \cap aTimers = {})]_vars

\* C14: a session whose status is error keeps that status until
\* stopRecording takes it to idle, and no startRecording call made meanwhile
\* asks for the device.
C14_ErrorHoldsUntilStop ==
    [][tStatus = "error"
          => /\ \/ tStatus' = "error"
                \/ (tStatus' = "idle" /\ tIsRecording /\ ~tIsRecording')
             /\ tStarting' <= tStarting]_vars

\* C15: a fatal error of the recorder while the session records sets the
\* status to error, releases the tracks of its stream and ends the recording.
C15_RecorderErrorEndsSession ==
    [][\A r \in Recorders :
          (tIsRecording /\ tRecState[r] = "recording"
           /\ tRecState'[r] = "inactive" /\ tCause'[r] = "error")
             => (tStatus' = "error" /\ ~tTracksLive'[r] /\ ~tIsRecording')]_vars

\* C16: at most one acquired stream has live tracks at any time, and none has
\* while the session is idle with no startRecording call pending.
C16_OneLiveStream ==
    /\ Cardinality({r \in Recorders : aTracksLive[r]}) <= 1
    /\ (~aIsRecording /\ aStarting = 0) => \A r \in Recorders : ~aTracksLive[r]

\* C17: a response without a text field (an error body sent with a non-2xx
\* status, or a 2xx body that lacks the field) adds no entry to the
\* transcript: every entry is the text of a response.
C17_NoEntryWithoutText ==
    \A i \in DOMAIN tTranscriptions : tTranscriptions[i] # NoText

C19_IdleAfterStop ==
    (tStopped /\ ~tIsRecording /\ tStarting = 0)
        => (tStatus = "idle" /\ \A r \in Recorders : tRecState[r] # "recording")

\* C20: while the session records, the level check is scheduled for the next
\* animation frame.
C20_DetectionLoopRuns == tIsRecording => tLoop

SpecVAD == Init /\ [][VadNext]_vars

AppTick == Tick \/ AppNext

SpecApp == Init /\ [][AppTick]_vars

AtTick == Tick \/ AtNext

SpecAT == Init /\ [][AtTick]_vars

\* The value of isRecording that checkSilence and checkAudioLevel read. Both
\* are closures made by the startRecording of the render the button was
\* clicked in, and the button calls startRecording only in a render whose
\* isRecording is false (TranscriptionApp.tsx:165,
\* RealTimeTranscriptionVAD.tsx:374); rescheduling passes the same closure on
StartClosureSees == FALSE

\* TranscriptionApp as written: the first call of checkSilence returns at
\* its test, so no frame callback is ever registered
AppWrittenNext ==
    \/ TStartClick
    \/ TStartRejected
    \/ \E db \in Levels : TStartResolved(StartClosureSees, db)
    \/ TStopRecording
    \/ \E r \in Recorders : TRecorderError(r)
    \/ \E r \in Recorders, d \in BOOLEAN : TStopTask(r, d)
    \/ \E q \in tInflight, o \in Outcomes : TFetchSettles(q, o)

AppWrittenTick == Tick \/ AppWrittenNext

SpecAppWritten == Init /\ [][AppWrittenTick]_vars

\* AudioTranscription as written: the first call of checkAudioLevel returns
\* at its test, so no frame callback is registered and no timer is set
AtWrittenNext ==
    \/ AStartClick
    \/ AStartRejected
    \/ \E db \in LevelsAT : AStartResolved(StartClosureSees, db)
    \/ \E r \in Recorders, d \in BOOLEAN : ADataAvailable(r, d)
    \/ \E r \in Recorders, d \in BOOLEAN : AStopTask(r, d)
    \/ AStopRecording

AtWrittenTick == Tick \/ AtWrittenNext

SpecATWritten == Init /\ [][AtWrittenTick]_vars

\* AudioTranscription with its upload input in use
AtUploadTick == AtTick \/ UploadNext

SpecATUpload == Init /\ [][AtUploadTick]_vars

====
